---- MODULE Spec2Model ----
(***************************************************************************)
(* LexiMini legal chatbot: the query app (src/app.py) and the ingestion    *)
(* job (src/ingestion.py) as state machines.                               *)
(*                                                                         *)
(* src/app.py is a Streamlit script: every interaction (page load, chat    *)
(* input, button click) runs the script from its first line to its last,   *)
(* or to the first st.stop() or uncaught exception; st.session_state       *)
(* survives between runs, script locals do not.  pc is the script line the *)
(* run is at, "idle" between runs.  Outcomes of the environment (getenv,   *)
(* os.path.exists, constructors and calls that may raise) are chosen where *)
(* the script reads them.  An interaction arrives between runs: the page   *)
(* blocks on the "Thinking" status while a question is processed.          *)
(*                                                                         *)
(* Text is a sequence of characters, so that string concatenation, the     *)
(* character loop of the typing effect and os.path.basename are computed.  *)
(***************************************************************************)
EXTENDS Integers, Sequences, FiniteSets, TLC

VARIABLES
    \* ---- src/app.py ----
    pc,                 \* script position of the current run, "idle" between runs
    session_keys,       \* keys present in st.session_state
    messages,           \* st.session_state.messages
    memory,             \* st.session_state.memory: the exchanges the window memory holds
    input_prompt,       \* value st.chat_input returns in this run
    groq_api_key,       \* os.getenv("GROQ_API_KEY") of this run
    openai_key,         \* os.getenv("OPENAI_API_KEY") of this run
    embeddings,         \* the embeddings object of this run
    attempts,           \* embedding constructors called in this run, in order, with outcome
    db,                 \* the loaded FAISS index of this run
    llm,                \* the ChatGroq client of this run
    qa,                 \* the ConversationalRetrievalChain of this run
    notices,            \* st.error / st.warning / st.success / exception boxes of this run
    screen,             \* chat messages rendered in this run (st.chat_message)
    chat_input_shown,   \* the chat input widget is on the page
    button_shown,       \* the reset button is on the page
    prompt_sent,        \* the prompt the chain formatted for the model in this run
    retrievals,         \* retriever calls of this run
    generations,        \* language-model calls of this run
    result,             \* result["answer"]
    full_response,
    displayed_response,
    message_placeholder,
    after_reset,        \* reset_conversation ran and no prompt was sent since
    prior,              \* session state when the interaction of this run arrived
    \* ---- src/ingestion.py ----
    ipc,                \* position in embed_and_save_documents / __main__
    dir_exists,         \* os.path.exists(data_directory)
    listing,            \* os.listdir(data_directory)
    pdf_files,
    ing_embeddings,     \* the HuggingFaceEmbeddings object
    docs,               \* loader.load()
    final_documents,    \* text_splitter.split_documents(docs), then tagged
    batched_documents,
    vector_stores,
    vectors,
    merge_i,            \* index of the merge loop
    saved_index,        \* the index artifacts written at vector_store_path
    success,            \* return value of embed_and_save_documents
    exit_status         \* exit status of the process

appVars == <<pc, session_keys, messages, memory, input_prompt, groq_api_key,
             openai_key, embeddings, attempts, db, llm, qa, notices, screen,
             chat_input_shown, button_shown, prompt_sent, retrievals,
             generations, result, full_response, displayed_response,
             message_placeholder, after_reset, prior>>

ingVars == <<ipc, dir_exists, listing, pdf_files, ing_embeddings, docs,
             final_documents, batched_documents, vector_stores,
             vectors, merge_i, saved_index, success, exit_status>>

vars == <<appVars, ingVars>>

None == "None"

\* None where text is expected: no text holds this character.
NoText == <<None>>

\* An optional value: nothing, or one value.
Nothing == << >>
Some(x) == <<x>>

(***************************************************************************)
(* Bounds of the model.                                                    *)
(***************************************************************************)
\* Turns a session transcript may hold before the model stops accepting questions.
MaxMessages == 6

\* The questions a user may type and the raw answers the model may return.
Questions == {"q1", "q2"}
Answers == {<< >>, <<"a">>}

(***************************************************************************)
(* src/app.py                                                              *)
(***************************************************************************)
\* ConversationBufferWindowMemory(k=2, ...)
k == 2

\* The disclaimer literal of line 289, as characters.
disclaimer == <<"-", "D">>

\* The typing cursor " ▌" of line 298.
cursor == <<"|">>

UserTurn(content) == [role |-> "user", content |-> content]
AssistantTurn(content) == [role |-> "assistant", content |-> content]

\* str.endswith(suffix)
EndsWith(name, suffix) ==
    /\ Len(suffix) <= Len(name)
    /\ SubSeq(name, Len(name) - Len(suffix) + 1, Len(name)) = suffix

\* The last n elements of s.
LastN(s, n) == IF Len(s) <= n THEN s ELSE SubSeq(s, Len(s) - n + 1, Len(s))

\* qa.invoke saves the exchange in the window memory; the window keeps the last k.
SaveContext_KeepsAll(mem, question, answer) ==
    Append(mem, [input |-> question, output |-> answer])

SaveContext(mem, question, answer) ==
    LastN(Append(mem, [input |-> question, output |-> answer]), k)

\* full_response = result["answer"] + disclaimer
Decorate_NoDisclaimer(answer) == answer

Decorate(answer) == answer \o disclaimer

\* Script locals at the first line of a run.
FreshLocals ==
    /\ groq_api_key' = None
    /\ openai_key' = None
    /\ embeddings' = None
    /\ attempts' = << >>
    /\ db' = None
    /\ llm' = None
    /\ qa' = None
    /\ notices' = {}
    /\ screen' = << >>
    /\ chat_input_shown' = FALSE
    /\ button_shown' = FALSE
    /\ prompt_sent' = Nothing
    /\ retrievals' = 0
    /\ generations' = 0
    /\ result' = NoText
    /\ full_response' = NoText
    /\ displayed_response' = NoText
    /\ message_placeholder' = NoText

localVars == <<groq_api_key, openai_key, embeddings, attempts, db, llm, qa,
               notices, screen, chat_input_shown, button_shown, prompt_sent,
               retrievals, generations, result, full_response,
               displayed_response, message_placeholder>>

Snapshot == [messages |-> messages, memory |-> memory]

\* ---- interactions that start a run ----

\* The page is reloaded in the same session: the script runs with no chat input.
Rerun ==
    /\ pc = "idle"
    /\ pc' = "getenv"
    /\ input_prompt' = None
    /\ prior' = Snapshot
    /\ FreshLocals
    /\ UNCHANGED <<session_keys, messages, memory, after_reset>>
    /\ UNCHANGED ingVars

\* The user submits a question in the chat input.
Submit ==
    /\ pc = "idle"
    /\ chat_input_shown
    /\ Len(messages) + 2 <= MaxMessages
    /\ \E q \in Questions : input_prompt' = q
    /\ pc' = "getenv"
    /\ prior' = Snapshot
    /\ FreshLocals
    /\ UNCHANGED <<session_keys, messages, memory, after_reset>>
    /\ UNCHANGED ingVars

\* The user clicks 'Reset All Chat': the on_click callback runs before the script.
ClickReset ==
    /\ pc = "idle"
    /\ button_shown
    /\ pc' = "callback"
    /\ input_prompt' = None
    /\ prior' = Snapshot
    /\ UNCHANGED <<session_keys, messages, memory, after_reset, localVars>>
    /\ UNCHANGED ingVars

reset_conversation_KeepsMemory ==
    /\ pc = "callback"
    /\ messages' = << >>
    /\ after_reset' = TRUE
    /\ pc' = "rerun"
    /\ UNCHANGED <<memory, session_keys, input_prompt, prior, localVars>>
    /\ UNCHANGED ingVars

reset_conversation ==
    /\ pc = "callback"
    /\ messages' = << >>
    /\ memory' = << >>
    /\ after_reset' = TRUE
    /\ pc' = "rerun"
    /\ UNCHANGED <<session_keys, input_prompt, prior, localVars>>
    /\ UNCHANGED ingVars

\* The script run that follows the callback.
RerunAfterCallback ==
    /\ pc = "rerun"
    /\ pc' = "getenv"
    /\ FreshLocals
    /\ UNCHANGED <<session_keys, messages, memory, input_prompt, after_reset, prior>>
    /\ UNCHANGED ingVars

\* ---- the script, top to bottom ----

\* Lines 16-28: the credential check; st.stop() ends the run.
CheckGroqKey ==
    /\ pc = "getenv"
    /\ \E key \in {None, "gsk"} :
         /\ groq_api_key' = key
         /\ IF key = None
              THEN /\ notices' = notices \cup {"groq_key_missing"}
                   /\ pc' = "idle"
              ELSE /\ notices' = notices
                   /\ pc' = "session_state"
    /\ UNCHANGED <<session_keys, messages, memory, input_prompt, openai_key,
                   embeddings, attempts, db, llm, qa, screen, chat_input_shown,
                   button_shown, prompt_sent, retrievals, generations, result,
                   full_response, displayed_response, message_placeholder,
                   after_reset, prior>>
    /\ UNCHANGED ingVars

\* Lines 132-136: session state is created once per session.
InitSessionState ==
    /\ pc = "session_state"
    /\ messages' = IF "messages" \in session_keys THEN messages ELSE << >>
    /\ memory' = IF "memory" \in session_keys THEN memory ELSE << >>
    /\ session_keys' = session_keys \cup {"messages", "memory"}
    /\ pc' = "embed_primary"
    /\ UNCHANGED <<input_prompt, after_reset, prior, localVars>>
    /\ UNCHANGED ingVars

embedVarsRest == <<session_keys, messages, memory, input_prompt, groq_api_key,
                   db, llm, qa, screen, chat_input_shown, button_shown,
                   prompt_sent, retrievals, generations, result, full_response,
                   displayed_response, message_placeholder, after_reset, prior>>

Attempted(provider, ok) == Append(attempts, [provider |-> provider, ok |-> ok])

\* Lines 142-149: the configured local model.
EmbedPrimary ==
    /\ pc = "embed_primary"
    /\ \E ok \in BOOLEAN :
         /\ attempts' = Attempted("primary", ok)
         /\ IF ok
              THEN /\ embeddings' = "primary"
                   /\ notices' = notices
                   /\ pc' = "check_store"
              ELSE /\ embeddings' = embeddings
                   /\ notices' = notices \cup {"primary_failed"}
                   /\ pc' = "embed_alternate"
    /\ UNCHANGED <<openai_key, embedVarsRest>>
    /\ UNCHANGED ingVars

\* Lines 151-158: the alternate local model.
EmbedAlternate ==
    /\ pc = "embed_alternate"
    /\ \E ok \in BOOLEAN :
         /\ attempts' = Attempted("alternate", ok)
         /\ IF ok
              THEN /\ embeddings' = "alternate"
                   /\ pc' = "check_store"
              ELSE /\ embeddings' = embeddings
                   /\ pc' = "embed_openai"
    /\ UNCHANGED <<openai_key, notices, embedVarsRest>>
    /\ UNCHANGED ingVars

\* Lines 159-174: the remote API, only with a credential; the import or the
\* constructor may raise.
EmbedOpenAI ==
    /\ pc = "embed_openai"
    /\ \E key \in {None, "sk"}, outcome \in {"ok", "import_error", "error"} :
         /\ openai_key' = key
         /\ IF key = None
              THEN /\ outcome = "error"       \* raise Exception("No OpenAI key available")
                   /\ UNCHANGED <<attempts, embeddings, notices>>
                   /\ pc' = "embed_dummy"
              ELSE /\ attempts' = Attempted("openai", outcome = "ok")
                   /\ embeddings' = IF outcome = "ok" THEN "openai" ELSE embeddings
                   /\ notices' = notices \cup
                         (CASE outcome = "ok" -> {"openai_success"}
                            [] outcome = "import_error" -> {"openai_unavailable"}
                            [] OTHER -> {})
                   /\ pc' = IF outcome = "ok" THEN "check_store" ELSE "embed_dummy"
    /\ UNCHANGED embedVarsRest
    /\ UNCHANGED ingVars

\* Lines 175-196: the stub.
EmbedDummy_Silent ==
    /\ pc = "embed_dummy"
    /\ embeddings' = "dummy"
    /\ notices' = notices \cup {"all_failed"}
    /\ pc' = "check_store"
    /\ UNCHANGED <<attempts, openai_key, embedVarsRest>>
    /\ UNCHANGED ingVars

EmbedDummy ==
    /\ pc = "embed_dummy"
    /\ embeddings' = "dummy"
    /\ notices' = notices \cup {"all_failed", "demo_mode"}
    /\ pc' = "check_store"
    /\ UNCHANGED <<attempts, openai_key, embedVarsRest>>
    /\ UNCHANGED ingVars

\* Lines 199-210: the index path check; st.stop() ends the run.
CheckVectorStore ==
    /\ pc = "check_store"
    /\ \E exists \in BOOLEAN :
         IF exists
           THEN /\ notices' = notices
                /\ pc' = "load_store"
           ELSE /\ notices' = notices \cup {"store_missing"}
                /\ pc' = "idle"
    /\ UNCHANGED <<session_keys, messages, memory, input_prompt, groq_api_key,
                   openai_key, embeddings, attempts, db, llm, qa, screen,
                   chat_input_shown, button_shown, prompt_sent, retrievals,
                   generations, result, full_response, displayed_response,
                   message_placeholder, after_reset, prior>>
    /\ UNCHANGED ingVars

\* Lines 213-227: FAISS.load_local; a failure ends the run.
LoadVectorStore ==
    /\ pc = "load_store"
    /\ \E ok \in BOOLEAN :
         IF ok
           THEN /\ db' = "loaded"
                /\ notices' = IF embeddings = "dummy"
                                THEN notices \cup {"demo_mode_active"}
                                ELSE notices
                /\ pc' = "init_llm"
           ELSE /\ db' = db
                /\ notices' = notices \cup {"load_failed"}
                /\ pc' = "idle"
    /\ UNCHANGED <<session_keys, messages, memory, input_prompt, groq_api_key,
                   openai_key, embeddings, attempts, llm, qa, screen,
                   chat_input_shown, button_shown, prompt_sent, retrievals,
                   generations, result, full_response, displayed_response,
                   message_placeholder, after_reset, prior>>
    /\ UNCHANGED ingVars

\* Lines 241-254: ChatGroq(...); a failure ends the run.
InitLLM ==
    /\ pc = "init_llm"
    /\ \E ok \in BOOLEAN :
         IF ok
           THEN /\ llm' = "client"
                /\ notices' = notices
                /\ pc' = "build_qa"
           ELSE /\ llm' = llm
                /\ notices' = notices \cup {"llm_init_failed"}
                /\ pc' = "idle"
    /\ UNCHANGED <<session_keys, messages, memory, input_prompt, groq_api_key,
                   openai_key, embeddings, attempts, db, qa, screen,
                   chat_input_shown, button_shown, prompt_sent, retrievals,
                   generations, result, full_response, displayed_response,
                   message_placeholder, after_reset, prior>>
    /\ UNCHANGED ingVars

\* Lines 257-262: the chain over llm, the session's memory and the retriever.
BuildQA ==
    /\ pc = "build_qa"
    /\ qa' = "chain"
    /\ pc' = "display"
    /\ UNCHANGED <<session_keys, messages, memory, input_prompt, groq_api_key,
                   openai_key, embeddings, attempts, db, llm, notices, screen,
                   chat_input_shown, button_shown, prompt_sent, retrievals,
                   generations, result, full_response, displayed_response,
                   message_placeholder, after_reset, prior>>
    /\ UNCHANGED ingVars

\* Lines 265-272: every stored turn is rendered; a role other than "user" is
\* rendered as the assistant.
Rendered(message) ==
    IF message.role = "user" THEN UserTurn(message.content)
                             ELSE AssistantTurn(message.content)

DisplayPrevious ==
    /\ pc = "display"
    /\ screen' = [i \in 1..Len(messages) |-> Rendered(messages[i])]
    /\ pc' = "chat_input"
    /\ UNCHANGED <<session_keys, messages, memory, input_prompt, groq_api_key,
                   openai_key, embeddings, attempts, db, llm, qa, notices,
                   chat_input_shown, button_shown, prompt_sent, retrievals,
                   generations, result, full_response, displayed_response,
                   message_placeholder, after_reset, prior>>
    /\ UNCHANGED ingVars

\* Lines 275-277: the chat input widget; without input the script goes to the footer.
ChatInput ==
    /\ pc = "chat_input"
    /\ chat_input_shown' = TRUE
    /\ pc' = IF input_prompt = None THEN "footer" ELSE "append_user"
    /\ UNCHANGED <<session_keys, messages, memory, input_prompt, groq_api_key,
                   openai_key, embeddings, attempts, db, llm, qa, notices, screen,
                   button_shown, prompt_sent, retrievals, generations, result,
                   full_response, displayed_response, message_placeholder,
                   after_reset, prior>>
    /\ UNCHANGED ingVars

\* Lines 278-281: the question is shown and stored.
AppendUser ==
    /\ pc = "append_user"
    /\ screen' = Append(screen, UserTurn(input_prompt))
    /\ messages' = Append(messages, UserTurn(input_prompt))
    /\ pc' = "invoke"
    /\ UNCHANGED <<session_keys, memory, input_prompt, groq_api_key, openai_key,
                   embeddings, attempts, db, llm, qa, notices, chat_input_shown,
                   button_shown, prompt_sent, retrievals, generations, result,
                   full_response, displayed_response, message_placeholder,
                   after_reset, prior>>
    /\ UNCHANGED ingVars

\* Line 285, first half: the chain reads the memory window, retrieves the
\* context and formats the prompt of lines 230-238.
Invoke ==
    /\ pc = "invoke"
    /\ retrievals' = retrievals + 1
    /\ prompt_sent' = Some([chat_history |-> memory, question |-> input_prompt])
    /\ pc' = "llm"
    /\ UNCHANGED <<session_keys, messages, memory, input_prompt, groq_api_key,
                   openai_key, embeddings, attempts, db, llm, qa, notices, screen,
                   chat_input_shown, button_shown, generations, result,
                   full_response, displayed_response, message_placeholder,
                   after_reset, prior>>
    /\ UNCHANGED ingVars

\* Line 285, second half: the model answers and the chain saves the exchange
\* (the raw answer) in the memory.
LLMReturn ==
    /\ pc = "llm"
    /\ generations' = generations + 1
    /\ \E answer \in Answers :
         /\ result' = answer
         /\ memory' = SaveContext(memory, input_prompt, answer)
    /\ after_reset' = FALSE
    /\ pc' = "decorate"
    /\ UNCHANGED <<session_keys, messages, input_prompt, groq_api_key, openai_key,
                   embeddings, attempts, db, llm, qa, notices, screen,
                   chat_input_shown, button_shown, prompt_sent, retrievals,
                   full_response, displayed_response, message_placeholder, prior>>
    /\ UNCHANGED ingVars

\* Line 285 raises: nothing catches it, Streamlit shows the exception and the
\* run ends.
LLMFail_StoresError ==
    /\ pc = "llm"
    /\ generations' = generations + 1
    /\ notices' = notices \cup {"exception"}
    /\ messages' = Append(messages, AssistantTurn(<<"E">>))
    /\ after_reset' = FALSE
    /\ pc' = "idle"
    /\ UNCHANGED <<session_keys, memory, input_prompt, groq_api_key,
                   openai_key, embeddings, attempts, db, llm, qa, screen,
                   chat_input_shown, button_shown, prompt_sent, retrievals,
                   result, full_response, displayed_response,
                   message_placeholder, prior>>
    /\ UNCHANGED ingVars

LLMFail ==
    /\ pc = "llm"
    /\ generations' = generations + 1
    /\ notices' = notices \cup {"exception"}
    /\ after_reset' = FALSE
    /\ pc' = "idle"
    /\ UNCHANGED <<session_keys, messages, memory, input_prompt, groq_api_key,
                   openai_key, embeddings, attempts, db, llm, qa, screen,
                   chat_input_shown, button_shown, prompt_sent, retrievals,
                   result, full_response, displayed_response,
                   message_placeholder, prior>>
    /\ UNCHANGED ingVars

\* Lines 286-291.
DecorateResponse ==
    /\ pc = "decorate"
    /\ message_placeholder' = << >>
    /\ full_response' = Decorate(result)
    /\ displayed_response' = << >>
    /\ pc' = "typing"
    /\ UNCHANGED <<session_keys, messages, memory, input_prompt, groq_api_key,
                   openai_key, embeddings, attempts, db, llm, qa, notices, screen,
                   chat_input_shown, button_shown, prompt_sent, retrievals,
                   generations, result, after_reset, prior>>
    /\ UNCHANGED ingVars

\* Lines 295-298: one character of the typing effect.
TypingStep ==
    /\ pc = "typing"
    /\ Len(displayed_response) < Len(full_response)
    /\ displayed_response' =
          Append(displayed_response, full_response[Len(displayed_response) + 1])
    /\ message_placeholder' = displayed_response' \o cursor
    /\ UNCHANGED <<pc, session_keys, messages, memory, input_prompt, groq_api_key,
                   openai_key, embeddings, attempts, db, llm, qa, notices, screen,
                   chat_input_shown, button_shown, prompt_sent, retrievals,
                   generations, result, full_response, after_reset, prior>>
    /\ UNCHANGED ingVars

\* Line 301: the final response without the cursor.
TypingDone ==
    /\ pc = "typing"
    /\ Len(displayed_response) = Len(full_response)
    /\ message_placeholder' = full_response
    /\ screen' = Append(screen, AssistantTurn(full_response))
    /\ pc' = "button"
    /\ UNCHANGED <<session_keys, messages, memory, input_prompt, groq_api_key,
                   openai_key, embeddings, attempts, db, llm, qa, notices,
                   chat_input_shown, button_shown, prompt_sent, retrievals,
                   generations, result, full_response, displayed_response,
                   after_reset, prior>>
    /\ UNCHANGED ingVars

\* Line 303.
ResetButton ==
    /\ pc = "button"
    /\ button_shown' = TRUE
    /\ pc' = "append_assistant"
    /\ UNCHANGED <<session_keys, messages, memory, input_prompt, groq_api_key,
                   openai_key, embeddings, attempts, db, llm, qa, notices, screen,
                   chat_input_shown, prompt_sent, retrievals, generations, result,
                   full_response, displayed_response, message_placeholder,
                   after_reset, prior>>
    /\ UNCHANGED ingVars

\* Line 304.
AppendAssistant ==
    /\ pc = "append_assistant"
    /\ messages' = Append(messages, AssistantTurn(full_response))
    /\ pc' = "footer"
    /\ UNCHANGED <<session_keys, memory, input_prompt, groq_api_key, openai_key,
                   embeddings, attempts, db, llm, qa, notices, screen,
                   chat_input_shown, button_shown, prompt_sent, retrievals,
                   generations, result, full_response, displayed_response,
                   message_placeholder, after_reset, prior>>
    /\ UNCHANGED ingVars

\* Lines 307-315: the last statement of the script.
Footer ==
    /\ pc = "footer"
    /\ pc' = "idle"
    /\ UNCHANGED <<session_keys, messages, memory, input_prompt, after_reset,
                   prior, localVars>>
    /\ UNCHANGED ingVars

(***************************************************************************)
(* src/ingestion.py                                                        *)
(*                                                                         *)
(* One run of the batch job.  The directory listing, the text units the    *)
(* loader extracts and the number of chunks the splitter cuts a unit into  *)
(* are inputs.  ipc is the line the job is at.                             *)
(***************************************************************************)
\* Text units the loader may return in one run.
MaxUnits == 2

\* batch_size = 100
batch_size == 100

\* data_directory, "./d"
data_directory == <<".", "/", "d">>

\* Names os.listdir may return.
FileNames ==
    { <<"a", ".", "p", "d", "f">>,
      <<"B", ".", "P", "D", "F">>,
      <<"n", ".", "t", "x", "t">> }

\* Chunks the splitter may cut one text unit into (none for a page without text).
UnitChunks == {0, 1, batch_size}

\* str.lower()
LowerChar(c) ==
    CASE c = "B" -> "b"
      [] c = "P" -> "p"
      [] c = "D" -> "d"
      [] c = "F" -> "f"
      [] OTHER -> c

Lower(name) == [i \in 1..Len(name) |-> LowerChar(name[i])]

\* f.lower().endswith('.pdf')
IsPdfName(f) == EndsWith(Lower(f), <<".", "p", "d", "f">>)

\* os.path.join(directory, name)
JoinPath(directory, name) == directory \o <<"/">> \o name

\* os.path.basename(path): what follows the last "/"
Basename(path) ==
    LET slashes == {i \in 1..Len(path) : path[i] = "/"}
        last == IF slashes = {} THEN 0
                ELSE CHOOSE i \in slashes : \A j \in slashes : j <= i
    IN  SubSeq(path, last + 1, Len(path))

\* A text unit of loader.load(): the file it was extracted from, whether its
\* metadata carries 'source', and the chunks the splitter cuts it into.
Units(files) ==
    [origin : files, has_source : BOOLEAN, chunks : UnitChunks]

RECURSIVE SeqsUpTo(_, _)
SeqsUpTo(S, n) ==
    IF n = 0 THEN {<< >>}
    ELSE LET shorter == SeqsUpTo(S, n - 1)
         IN  shorter \cup {Append(t, x) : t \in {u \in shorter : Len(u) = n - 1}, x \in S}

\* text_splitter.split_documents(docs): the chunks of every unit, in order, each
\* with a copy of the unit's metadata.
ChunksOf(u, unit) ==
    [j \in 1..unit.chunks |->
        [unit |-> u, part |-> j, origin |-> unit.origin,
         has_source |-> unit.has_source,
         source |-> IF unit.has_source
                      THEN JoinPath(data_directory, unit.origin)
                      ELSE NoText]]

RECURSIVE SplitFrom(_, _)
SplitFrom(ds, u) ==
    IF u > Len(ds) THEN << >>
    ELSE ChunksOf(u, ds[u]) \o SplitFrom(ds, u + 1)

split_documents(ds) == SplitFrom(ds, 1)

\* Lines 50-56 for one chunk.
Tagged(doc) ==
    IF doc.has_source
      THEN [doc EXCEPT !.source = Basename(doc.source)]
      ELSE [doc EXCEPT !.has_source = TRUE,
                       !.source = Basename(data_directory)]

\* Line 60: final_documents[i:i + batch_size] for i in range(0, len, batch_size)
Batches(documents) ==
    [b \in 1..((Len(documents) + batch_size - 1) \div batch_size) |->
        SubSeq(documents, (b - 1) * batch_size + 1,
               IF b * batch_size <= Len(documents) THEN b * batch_size
                                                   ELSE Len(documents))]

\* Lines 18-22.
CheckDirectory ==
    /\ ipc = "check_directory"
    /\ IF dir_exists
         THEN /\ ipc' = "list_pdfs"
              /\ success' = success
         ELSE /\ ipc' = "returned"
              /\ success' = Some(FALSE)
    /\ UNCHANGED <<dir_exists, listing, pdf_files, ing_embeddings, docs,
                   final_documents, batched_documents, vector_stores,
                   vectors, merge_i, saved_index, exit_status>>
    /\ UNCHANGED appVars

\* Lines 25-31.
CheckPdfFiles_NoReturn ==
    /\ ipc = "list_pdfs"
    /\ pdf_files' = {f \in listing : IsPdfName(f)}
    /\ ipc' = "embeddings"
    /\ UNCHANGED <<dir_exists, listing, ing_embeddings, docs, final_documents,
                   batched_documents, vector_stores, vectors, merge_i,
                   saved_index, success, exit_status>>
    /\ UNCHANGED appVars

CheckPdfFiles ==
    /\ ipc = "list_pdfs"
    /\ pdf_files' = {f \in listing : IsPdfName(f)}
    /\ IF pdf_files' = {}
         THEN /\ ipc' = "returned"
              /\ success' = Some(FALSE)
         ELSE /\ ipc' = "embeddings"
              /\ success' = success
    /\ UNCHANGED <<dir_exists, listing, ing_embeddings, docs, final_documents,
                   batched_documents, vector_stores, vectors, merge_i,
                   saved_index, exit_status>>
    /\ UNCHANGED appVars

\* Lines 34-38.
InitEmbeddings ==
    /\ ipc = "embeddings"
    /\ ing_embeddings' = "HuggingFaceEmbeddings"
    /\ ipc' = "load"
    /\ UNCHANGED <<dir_exists, listing, pdf_files, docs, final_documents, batched_documents, vector_stores, vectors, merge_i,
                   saved_index, success, exit_status>>
    /\ UNCHANGED appVars

\* Lines 40-43: the loader returns the text units of PDF files of the directory.
LoadDocuments ==
    /\ ipc = "load"
    /\ \E ds \in SeqsUpTo(Units(pdf_files), MaxUnits) : docs' = ds
    /\ ipc' = "split"
    /\ UNCHANGED <<dir_exists, listing, pdf_files, ing_embeddings,
                   final_documents, batched_documents, vector_stores,
                   vectors, merge_i, saved_index, success, exit_status>>
    /\ UNCHANGED appVars

\* Lines 45-47.
SplitDocuments ==
    /\ ipc = "split"
    /\ final_documents' = split_documents(docs)
    /\ ipc' = "tag"
    /\ UNCHANGED <<dir_exists, listing, pdf_files, ing_embeddings, docs, batched_documents, vector_stores, vectors, merge_i,
                   saved_index, success, exit_status>>
    /\ UNCHANGED appVars

\* Lines 50-56: the loop over final_documents.
TagSources ==
    /\ ipc = "tag"
    /\ final_documents' =
          [i \in 1..Len(final_documents) |-> Tagged(final_documents[i])]
    /\ ipc' = "batch"
    /\ UNCHANGED <<dir_exists, listing, pdf_files, ing_embeddings, docs,
                   batched_documents, vector_stores, vectors, merge_i,
                   saved_index, success, exit_status>>
    /\ UNCHANGED appVars

\* Lines 59-61.
BatchDocuments ==
    /\ ipc = "batch"
    /\ batched_documents' = Batches(final_documents)
    /\ vector_stores' = << >>
    /\ ipc' = "embed_batches"
    /\ UNCHANGED <<dir_exists, listing, pdf_files, ing_embeddings, docs,
                   final_documents, vectors, merge_i, saved_index,
                   success, exit_status>>
    /\ UNCHANGED appVars

\* Lines 62-64: FAISS.from_documents(batch, embeddings), one index per batch.
EmbedBatch ==
    /\ ipc = "embed_batches"
    /\ Len(vector_stores) < Len(batched_documents)
    /\ vector_stores' =
          Append(vector_stores, batched_documents[Len(vector_stores) + 1])
    /\ UNCHANGED <<ipc, dir_exists, listing, pdf_files, ing_embeddings, docs,
                   final_documents, batched_documents, vectors, merge_i,
                   saved_index, success, exit_status>>
    /\ UNCHANGED appVars

\* Line 68: vector_stores[0]; an empty list raises IndexError.
TakeFirstStore ==
    /\ ipc = "embed_batches"
    /\ Len(vector_stores) = Len(batched_documents)
    /\ IF vector_stores = << >>
         THEN /\ ipc' = "raised"
              /\ UNCHANGED <<vectors, merge_i>>
         ELSE /\ vectors' = Some(vector_stores[1])
              /\ merge_i' = 2
              /\ ipc' = "merge"
    /\ UNCHANGED <<dir_exists, listing, pdf_files, ing_embeddings, docs,
                   final_documents, batched_documents, vector_stores,
                   saved_index, success, exit_status>>
    /\ UNCHANGED appVars

\* Lines 69-70: vectors.merge_from(vector_store) for vector_stores[1:], in order.
MergeStore ==
    /\ ipc = "merge"
    /\ merge_i <= Len(vector_stores)
    /\ vectors' = Some(vectors[1] \o vector_stores[merge_i])
    /\ merge_i' = merge_i + 1
    /\ UNCHANGED <<ipc, dir_exists, listing, pdf_files, ing_embeddings, docs,
                   final_documents, batched_documents, vector_stores,
                   saved_index, success, exit_status>>
    /\ UNCHANGED appVars

\* Lines 74-77.
SaveLocal ==
    /\ ipc = "merge"
    /\ merge_i > Len(vector_stores)
    /\ saved_index' = vectors
    /\ success' = Some(TRUE)
    /\ ipc' = "returned"
    /\ UNCHANGED <<dir_exists, listing, pdf_files, ing_embeddings, docs,
                   final_documents, batched_documents, vector_stores,
                   vectors, merge_i, exit_status>>
    /\ UNCHANGED appVars

\* Lines 81-86: the entry point returns 0 on success and calls exit(1) otherwise.
MainExit ==
    /\ ipc = "returned"
    /\ exit_status' = IF success = Some(TRUE) THEN Some(0) ELSE Some(1)
    /\ ipc' = "exited"
    /\ UNCHANGED <<dir_exists, listing, pdf_files, ing_embeddings, docs,
                   final_documents, batched_documents, vector_stores,
                   vectors, merge_i, saved_index, success>>
    /\ UNCHANGED appVars

\* An exception nothing catches: the interpreter prints the traceback and
\* exits with status 1.
Traceback ==
    /\ ipc = "raised"
    /\ exit_status' = Some(1)
    /\ ipc' = "exited"
    /\ UNCHANGED <<dir_exists, listing, pdf_files, ing_embeddings, docs,
                   final_documents, batched_documents, vector_stores,
                   vectors, merge_i, saved_index, success>>
    /\ UNCHANGED appVars

(***************************************************************************)
(* Initial states and specifications.                                      *)
(***************************************************************************)
NoPrior == [messages |-> << >>, memory |-> << >>]

AppAt(position) ==
    /\ pc = position
    /\ session_keys = {}
    /\ messages = << >>
    /\ memory = << >>
    /\ input_prompt = None
    /\ groq_api_key = None
    /\ openai_key = None
    /\ embeddings = None
    /\ attempts = << >>
    /\ db = None
    /\ llm = None
    /\ qa = None
    /\ notices = {}
    /\ screen = << >>
    /\ chat_input_shown = FALSE
    /\ button_shown = FALSE
    /\ prompt_sent = Nothing
    /\ retrievals = 0
    /\ generations = 0
    /\ result = NoText
    /\ full_response = NoText
    /\ displayed_response = NoText
    /\ message_placeholder = NoText
    /\ after_reset = FALSE
    /\ prior = NoPrior

IngestionAt(position) ==
    /\ ipc = position
    /\ pdf_files = {}
    /\ ing_embeddings = None
    /\ docs = << >>
    /\ final_documents = << >>
    /\ batched_documents = << >>
    /\ vector_stores = << >>
    /\ vectors = Nothing
    /\ merge_i = 0
    /\ saved_index = Nothing
    /\ success = Nothing
    /\ exit_status = Nothing

\* The session opens: the first run of the script, with nothing in
\* st.session_state.  The ingestion job is not part of this specification.
Init ==
    /\ AppAt("getenv")
    /\ IngestionAt("off")
    /\ dir_exists = FALSE
    /\ listing = {}

Next ==
    \/ Rerun
    \/ Submit
    \/ ClickReset
    \/ reset_conversation
    \/ RerunAfterCallback
    \/ CheckGroqKey
    \/ InitSessionState
    \/ EmbedPrimary
    \/ EmbedAlternate
    \/ EmbedOpenAI
    \/ EmbedDummy
    \/ CheckVectorStore
    \/ LoadVectorStore
    \/ InitLLM
    \/ BuildQA
    \/ DisplayPrevious
    \/ ChatInput
    \/ AppendUser
    \/ Invoke
    \/ LLMReturn
    \/ LLMFail
    \/ DecorateResponse
    \/ TypingStep
    \/ TypingDone
    \/ ResetButton
    \/ AppendAssistant
    \/ Footer

Spec == Init /\ [][Next]_vars

\* python ingestion.py, started on any data directory: missing, or holding any
\* set of the file names.
InitIngest ==
    /\ AppAt("off")
    /\ IngestionAt("check_directory")
    /\ dir_exists \in BOOLEAN
    /\ listing \in SUBSET FileNames
    /\ ~dir_exists => listing = {}

NextIngest ==
    \/ CheckDirectory
    \/ CheckPdfFiles
    \/ InitEmbeddings
    \/ LoadDocuments
    \/ SplitDocuments
    \/ TagSources
    \/ BatchDocuments
    \/ EmbedBatch
    \/ TakeFirstStore
    \/ MergeStore
    \/ SaveLocal
    \/ MainExit
    \/ Traceback

SpecIngest == InitIngest /\ [][NextIngest]_vars

(***************************************************************************)
(* The claims.                                                             *)
(***************************************************************************)
Last(s) == s[Len(s)]

\* C1: reset_conversation leaves the transcript and the memory window empty
\* and changes nothing else of the session or of the run, and the first prompt
\* sent to the model after a reset carries an empty chat history.
C1_ResetClearsConversation ==
    /\ [][pc = "callback" =>
            /\ messages' = << >>
            /\ memory' = << >>
            /\ UNCHANGED <<session_keys, input_prompt, localVars, ingVars>>]_vars
    /\ []((pc = "llm" /\ after_reset) =>
            /\ prompt_sent = Some([chat_history |-> << >>, question |-> input_prompt])
            /\ messages = <<UserTurn(input_prompt)>>)

\* A question asked after a reset is at the model, with an empty chat history.
C1_Witness ==
    /\ pc = "llm"
    /\ after_reset
    /\ prompt_sent = Some([chat_history |-> << >>, question |-> input_prompt])

\* C2: for every answered question and every raw answer, what is displayed
\* and what is stored as the assistant turn of that question is the raw answer
\* followed by the disclaimer, appended before display and before storing.
C2_DisclaimerAppended ==
    /\ \A i \in 1..Len(messages) :
          messages[i].role = "assistant" =>
             \E answer \in Answers : messages[i].content = answer \o disclaimer
    /\ pc \in {"typing", "button", "append_assistant"} =>
          full_response = result \o disclaimer
    /\ (pc \in {"button", "append_assistant", "footer", "idle"} /\ result # NoText) =>
          /\ message_placeholder = result \o disclaimer
          /\ Last(screen) = AssistantTurn(result \o disclaimer)
    /\ (pc \in {"footer", "idle"} /\ result # NoText) =>
          /\ Len(messages) >= 2
          /\ messages[Len(messages) - 1] = UserTurn(input_prompt)
          /\ Last(messages) = AssistantTurn(result \o disclaimer)

\* Two questions were answered, the second with the empty raw answer: its
\* stored turn is the disclaimer alone.
C2_Witness ==
    /\ pc = "idle"
    /\ result = << >>
    /\ Len(messages) >= 4
    /\ Last(messages) = AssistantTurn(disclaimer)
    /\ message_placeholder = disclaimer

\* C3: the memory window never holds more than k = 2 exchanges; an answered
\* question appends its exchange and evicts the oldest beyond the window; the
\* chat history given to the model never has more than the last 2 exchanges.
C3_WindowBounded ==
    /\ [](Len(memory) <= k)
    /\ [](\A i \in 1..Len(prompt_sent) : Len(prompt_sent[i].chat_history) <= k)
    /\ [](pc = "llm" =>
            prompt_sent = Some([chat_history |-> memory, question |-> input_prompt]))
    /\ [][(pc = "llm" /\ pc' = "decorate") =>
            LET exchange == [input |-> input_prompt, output |-> result']
            IN  /\ Len(memory) < k => memory' = Append(memory, exchange)
                /\ Len(memory) >= k => memory' = Append(Tail(memory), exchange)]_vars

\* Three questions were answered without a reset: the window holds the last
\* two exchanges and the first was evicted.
C3_Witness ==
    /\ pc = "idle"
    /\ Len(messages) = 6
    /\ \A i \in 1..6 : messages[i].role = (IF i % 2 = 1 THEN "user" ELSE "assistant")
    /\ messages[1].content # messages[3].content
    /\ Len(memory) = k
    /\ memory[1].input = messages[3].content
    /\ memory[2].input = messages[5].content

\* C4: with the data directory missing, or present without a PDF file,
\* embed_and_save_documents returns failure without initializing the embedding
\* model, loading documents or writing an index, and the entry point exits
\* with a non-zero status.
C4_NoPdfNoWork ==
    (~dir_exists \/ \A f \in listing : ~IsPdfName(f)) =>
        /\ ipc \in {"check_directory", "list_pdfs", "returned", "exited"}
        /\ ing_embeddings = None
        /\ docs = << >>
        /\ final_documents = << >>
        /\ vector_stores = << >>
        /\ vectors = Nothing
        /\ saved_index = Nothing
        /\ ipc \in {"returned", "exited"} => success = Some(FALSE)
        /\ ipc = "exited" => (exit_status # Nothing /\ exit_status # Some(0))

\* The job has exited on a directory that holds a file, but no PDF file.
C4_Witness ==
    /\ ipc = "exited"
    /\ dir_exists
    /\ listing # {}
    /\ \A f \in listing : ~IsPdfName(f)
    /\ success = Some(FALSE)
    /\ exit_status = Some(1)

RECURSIVE TotalChunks(_, _)
TotalChunks(ds, u) ==
    IF u > Len(ds) THEN 0 ELSE ds[u].chunks + TotalChunks(ds, u + 1)

\* C5: for every data directory that passes the PDF check, the job completes,
\* returns success and persists one merged index holding every chunk of every
\* loaded text unit exactly once, built from consecutive batches of at most
\* 100 chunks, one sub-index per batch.
C5_IndexHoldsEveryChunk ==
    (ipc = "exited" /\ dir_exists /\ pdf_files # {}) =>
        /\ success = Some(TRUE)
        /\ exit_status = Some(0)
        /\ Len(saved_index) = 1
        /\ Len(saved_index[1]) = TotalChunks(docs, 1)
        /\ saved_index[1] = final_documents
        /\ \A i, j \in 1..Len(saved_index[1]) :
              (saved_index[1][i].unit = saved_index[1][j].unit
                 /\ saved_index[1][i].part = saved_index[1][j].part) => i = j
        /\ Len(vector_stores) = Len(batched_documents)
        /\ \A b \in 1..Len(batched_documents) :
              /\ Len(batched_documents[b]) <= batch_size
              /\ vector_stores[b] = batched_documents[b]

\* C6: when the credential is absent or the index path does not exist, the
\* run reports it and halts before any index or model work: no embedding
\* backend initialized, no index loaded, no language-model client, no
\* retrieval or generation call.
C6_HaltsBeforeAnyWork ==
    (pc = "idle" /\ notices \cap {"groq_key_missing", "store_missing"} # {}) =>
        /\ embeddings = None
        /\ attempts = << >>
        /\ db = None
        /\ llm = None
        /\ qa = None
        /\ retrievals = 0
        /\ generations = 0

\* C7: when the language-model call fails, the failure is shown, the run
\* halts, no assistant turn is stored for the question, the call is made once,
\* and the transcript turns and memory entries stored before the question was
\* submitted are unchanged.
C7_FailedCallHalts ==
    (pc = "idle" /\ "exception" \in notices) =>
        /\ messages = Append(prior.messages, UserTurn(input_prompt))
        /\ memory = prior.memory
        /\ generations = 1
        /\ result = NoText
        /\ full_response = NoText
        /\ Last(screen) = UserTurn(input_prompt)
        /\ ~button_shown

\* The call failed on the second question of a conversation.
C7_Witness ==
    /\ pc = "idle"
    /\ "exception" \in notices
    /\ Len(prior.messages) >= 2
    /\ prior.memory # << >>
    /\ memory = prior.memory

ProviderOrder == <<"primary", "alternate", "openai">>

\* C8: the embedding providers are tried in the order primary, alternate,
\* remote API, stub; a provider is tried only after every earlier one failed,
\* the remote API only with its credential, the first success is kept, the
\* stub is taken only when all others failed or were skipped, and the stub is
\* always announced as demo mode.
C8_FallbackOrder ==
    /\ Len(attempts) <= Len(ProviderOrder)
    /\ \A i \in 1..Len(attempts) :
          /\ attempts[i].provider = ProviderOrder[i]
          /\ i < Len(attempts) => ~attempts[i].ok
          /\ attempts[i].ok => embeddings = attempts[i].provider
          /\ attempts[i].provider = "openai" => openai_key # None
    /\ embeddings \in {"primary", "alternate", "openai"} =>
          Last(attempts) = [provider |-> embeddings, ok |-> TRUE]
    /\ embeddings = "dummy" =>
          /\ \A i \in 1..Len(attempts) : ~attempts[i].ok
          /\ Len(attempts) >= 2
          /\ Len(attempts) = 2 <=> openai_key = None
          /\ "demo_mode" \in notices
    /\ pc \in {"check_store", "load_store", "init_llm", "build_qa"} => embeddings # None

\* The stub was selected after all three providers failed, with the remote
\* credential present, and the run went on to serve the page.
C8_Witness ==
    /\ pc = "idle"
    /\ embeddings = "dummy"
    /\ Len(attempts) = 3
    /\ openai_key # None
    /\ qa = "chain"
    /\ "demo_mode" \in notices

\* C9: after the tagging loop every chunk's source is the basename of the file
\* the chunk was extracted from, whether or not the loader supplied a source.
C9_SourceIsFileBasename ==
    ipc \in {"batch", "embed_batches", "merge", "raised", "returned", "exited"} =>
        \A i \in 1..Len(final_documents) :
            final_documents[i].source = Basename(JoinPath(data_directory, final_documents[i].origin))

\* C10: whenever the session is idle the stored transcript alternates user,
\* assistant, user, assistant, ... and has even length.
C10_TranscriptAlternates ==
    pc = "idle" =>
        /\ Len(messages) % 2 = 0
        /\ \A i \in 1..Len(messages) :
              messages[i].role = (IF i % 2 = 1 THEN "user" ELSE "assistant")
====
